---- MODULE Spec2Model ----
(***************************************************************************)
(* A model of the BCS device control bridge: BCSMotor (bcs_motor.py) and   *)
(* BCSSignal (bcs_signal.py) talking to a BCS server through a BCSServer   *)
(* transport object.                                                       *)
(*                                                                         *)
(* Threads are modelled as tasks.  A caller thread runs move(), stop() or  *)
(* read() on one BCSMotor; every move() starts one monitor thread running  *)
(* monitor_motor_status().  The zmq_* wrappers start a helper thread and   *)
(* join it at once, so the wrapper's body runs as part of the calling      *)
(* task, except that an exception raised in the helper thread is lost.     *)
(*                                                                         *)
(* bcs_server.py is not among the source files.  The transport (connect,   *)
(* one request/reply exchange at a time) is modelled from the design       *)
(* document, sections 4.1 and 5.                                           *)
(*                                                                         *)
(* Time is counted in poll intervals (check_interval = 0.1 s = 1 tick).    *)
(***************************************************************************)
EXTENDS Integers, Sequences, FiniteSets, TLC

\* ------------------------------------------------------------------ bounds

\* caller threads operating on the one motor
NCallers == 2
\* move() invocations (Move Operations, Status handles) in one behaviour
MaxMoves == 2
\* positions the server reports are 0..MaxPos
MaxPos == 1
\* caller-supplied move timeouts are None or 0..MaxTimeout ticks
MaxTimeout == 1
\* the clock of a monitor thread stops at MaxElapsed ticks
MaxElapsed == 3
\* Move Operations under Spec, callers and Move Operations under SpecTimed,
\* callers under SpecMoves
ConcMoves == 1
TimedCallers == 1
TimedMoves == 1
SeqCallers == 1
\* coroutines calling get() on the one BCSSignal, and the event loops (one
\* thread each) they may run on
NCoros == 3
NLoops == 2

\* a timeout given to a constructor, in milliseconds
CustomTimeout == 1

\* coroutines that call connect() of the BCSDeviceManager
NConnects == 2
\* ticks after which the probe's socket.recv() times out (timeout_ms)
ProbeTimeout == 1
\* motors and analog inputs in a configuration
MaxMotors == 2
MaxAIs == 1
\* DeviceStatus objects made by trigger()
NTriggers == 2

\* monitor_motor_status(check_interval=0.1): one tick
PollInterval == 1

\* BCSMotor.__init__: self._position = 0
InitialPosition == 0

\* BCSSignal.__init__: kwargs.get("timeout", 10000)
SignalTimeout == 10000

\* BCSDeviceManager.__init__(..., port=5577, timeout_ms=5000)
ManagerPort == 5577
ManagerTimeout == 5000

Callers == 1..NCallers
Handles == 1..MaxMoves
Tasks == 1..(NCallers + MaxMoves)
Pos == 0..MaxPos
Coros == 1..NCoros
Loops == 1..NLoops
MCoros == 1..NConnects
Statuses == 1..NTriggers

\* the task of the monitor thread of Move Operation h
MonTask(h) == NCallers + h
HandleOf(t) == t - NCallers

\* Python's None is <<>>, a value v is <<v>>
None == <<>>
Some(v) == <<v>>
Timeouts == {None} \cup {Some(n) : n \in 0..MaxTimeout}

\* a test `if timeout is not None and ...': 0 is a deadline
Truthy_NotNone(to) == to # None

\* `if timeout and ...': None and 0 are falsy
Truthy(to) == to # None /\ to[1] # 0

VARIABLES
    \* --- BCSMotor fields
    connected,      \* self._connected
    moveComplete,   \* self.moveComplete
    isMoving,       \* self.isMoving
    position,       \* self._position
    \* --- threads
    pc,             \* Tasks -> location
    op,             \* Tasks -> operation in progress
    cur,            \* Callers -> handle of the caller's move()
    loc,            \* Callers -> read()'s local converted_motor_position
    \* --- Move Operations
    nextHandle,     \* the next move() gets this handle
    hTimeout,       \* Handles -> the timeout argument of move()
    hWait,          \* Handles -> the wait argument of move()
    outcome,        \* Handles -> "none" (no Status yet), "pending", ...
    elapsed,        \* Handles -> time.time() - start_time of the running monitor
    sleepLeft,      \* Handles -> ticks left of time.sleep(check_interval)
    script,         \* status replies the scripted server has sent (it moves
                    \* under SpecScript only)
    \* --- transport (BCSServer)
    queue,          \* calls submitted and not yet on the wire, in order
    wire,           \* tasks whose request is sent and not yet answered
    begun,          \* tasks whose call has begun and whose request is not yet
                    \* sent, in the order the calls began
    \* --- history, read by the properties only
    callResult,     \* Callers -> how the stop-command RPC of the stop() that
                    \* is returning ended
    cmdResult,      \* Handles -> how the move-command RPC ended (kept until
                    \* the monitor has looked at its first status reply)
    pollErr,        \* Handles -> the poll h is evaluating ended in an error
    gotComplete,    \* Handles -> the poll h is evaluating said Move Complete
    overlapped,     \* Handles -> another Move Operation was live with h
                    \* (kept while h is live)
    updDur,         \* Handles -> ticks the latest update() call took
    lastReport,     \* None, or Some(position of the latest status report)
    \* --- BCSSignal
    sigConnected,   \* self._connected
    connection_lock,\* self._connection_lock: 0 (free) or the coroutine holding it
    sigPc,          \* Coros -> location
    sigLoop,        \* Coros -> the event loop the coroutine runs on
    sigOp,          \* Coros -> the latest operation: "get" or "set"
    sigReply,       \* Coros -> get()'s local response: None or Some(reply)
    sigResult,      \* Coros -> how the latest operation ended
    \* --- descriptors
    descriptor,     \* the constructor arguments (kwargs of the BCSSignal, args
                    \* of the BCSDeviceManager) and the fields built from them
    \* --- BCSDeviceManager
    mgrConnected,   \* self._connected
    seen_names,     \* self.seen_names: <<sanitized name, original name>> pairs
    catalog,        \* the items added to self.client, in order
    mPc,            \* MCoros -> location of the coroutine's connect()
    mSock,          \* MCoros -> the probe socket: "none", "open", "closed"
    mWaited,        \* MCoros -> ticks the probe has waited in socket.recv()
    mResponse,      \* MCoros -> the probe's local response: None or Some(..)
    mProbe,         \* MCoros -> how the latest probe ended
    mResult,        \* MCoros -> how the latest connect() ended
    \* --- BCSAreaDetector
    staged,         \* self._staged
    flying,         \* self._flying
    pattern_idx,    \* self._pattern_idx
    image,          \* the index in self._patterns of what self.image holds
    nextStatus,     \* the next trigger() makes this DeviceStatus
    aPc,            \* Statuses -> location of the acquisition thread
    aLocal,         \* Statuses -> the thread's locals: pattern, loaded index
    finished,       \* Statuses -> number of status._finished() calls
    detResult       \* the latest call of a detector method and how it ended:
                    \* <<method, "ok" or "raised">>

motorVars == <<connected, moveComplete, isMoving, position>>
threadVars == <<pc, op, cur, loc>>
moveVars ==
    <<nextHandle, hTimeout, hWait, outcome, elapsed, sleepLeft, script>>
wireVars == <<queue, wire, begun>>
histVars == <<callResult, cmdResult, pollErr, gotComplete, overlapped, updDur, lastReport>>
mgrVars ==
    <<mgrConnected, seen_names, catalog, mPc, mSock, mWaited, mResponse,
      mProbe, mResult>>
detVars ==
    <<staged, flying, pattern_idx, image, nextStatus, aPc, aLocal, finished,
      detResult>>
\* what no operation of the BCSMotor and of the BCSSignal writes
otherVars == <<descriptor, mgrVars, detVars>>
signalVars ==
    <<sigConnected, connection_lock, sigPc, sigLoop, sigOp, sigReply,
      sigResult>>
sigVars == <<signalVars, otherVars>>
\* what no operation of the BCSDeviceManager writes
nonMgrVars ==
    <<motorVars, threadVars, moveVars, wireVars, histVars, signalVars,
      descriptor, detVars>>
\* what no operation of the BCSAreaDetector writes
nonDetVars ==
    <<motorVars, threadVars, moveVars, wireVars, histVars, signalVars,
      descriptor, mgrVars>>
vars == <<motorVars, threadVars, moveVars, wireVars, histVars, sigVars>>

Settled == {"succeeded", "timedOut", "failed"}

\* ---------------------------------------------------------------- replies

\* What a call to the transport brings back.  err: the call raised
\* (ConnectionError, TimeoutError, Busy).  Otherwise the reply mapping:
\* success is "true", "false" or "absent"; not_found / timed_out say whether
\* the list is non-empty; data is None (no or empty list) or Some of the
\* first record, [complete |-> Motor State.Move Complete,
\* pos |-> Raw Motor Position].
ErrReply ==
    [err |-> TRUE, success |-> "absent", notFound |-> FALSE,
     timedOut |-> FALSE, data |-> None]

Success == {"true", "false", "absent"}

StatusRecords == [complete : BOOLEAN, pos : Pos]

MoveReplies ==
    {ErrReply} \cup
    [err : {FALSE}, success : Success, notFound : BOOLEAN,
     timedOut : BOOLEAN, data : {None}]

StopReplies ==
    {ErrReply} \cup
    [err : {FALSE}, success : Success, notFound : {FALSE},
     timedOut : {FALSE}, data : {None}]

StatusReplies ==
    {ErrReply} \cup
    [err : {FALSE}, success : Success, notFound : {FALSE},
     timedOut : {FALSE},
     data : {None} \cup {Some(r) : r \in StatusRecords}]

RepliesFor(o) ==
    CASE o = "move" -> MoveReplies
      [] o = "stop" -> StopReplies
      [] OTHER -> StatusReplies

\* response.get('success', False)
SuccessOf(rep) == rep.success = "true"

\* _zmq_move_motor_async: how the helper thread's coroutine ends
MoveOutcome(rep) ==
    IF rep.err THEN "conn_error"
    ELSE IF ~SuccessOf(rep) THEN "remote_error"
    ELSE IF rep.notFound THEN "not_found"
    ELSE IF rep.timedOut THEN "timed_out"
    ELSE "ok"

\* parse_get_motor_full: TRUE when it returns the data list, FALSE when it
\* raises ValueError
parse_get_motor_full(rep) == ~rep.err /\ SuccessOf(rep) /\ rep.data # None

\* ------------------------------------------------------------ descriptors

\* The keyword arguments a BCSSignal (an analog input) is built with:
\* bridgePort is a str or an int, <<"str", n>> or <<"int", n>>; timeout is
\* None when it is not supplied.
SignalKwargs ==
    [name : {"new_ai_2"}, originalName : {"New AI 2"}, itemType : {"ai"},
     bridgeIP : {"localhost"},
     bridgePort : {<<"str", ManagerPort>>, <<"int", ManagerPort>>},
     units : {"V"},
     timeout : {None, Some(CustomTimeout)}]

\* The arguments a BCSDeviceManager is built with; timeout_ms is None when
\* it is not supplied.
ManagerArgs ==
    [host : {"localhost"}, port : {ManagerPort},
     timeout_ms : {None, Some(CustomTimeout)}]

\* BCSSignal.__init__: the configuration it stores; int(bridgePort) is the
\* number, whichever form it was given in
BCSSignal_init(kw) ==
    [name |-> kw.name, originalName |-> kw.originalName,
     itemType |-> kw.itemType, host |-> kw.bridgeIP,
     port |-> kw.bridgePort[2], units |-> kw.units,
     timeout |-> IF kw.timeout = None THEN SignalTimeout ELSE kw.timeout[1]]

\* BCSDeviceManager.__init__
BCSDeviceManager_init(a) ==
    [host |-> a.host, port |-> a.port,
     timeout_ms |-> IF a.timeout_ms = None THEN ManagerTimeout
                    ELSE a.timeout_ms[1]]

\* the descriptors after the two constructors have run
Constructed(kw, a) ==
    [kwargs |-> kw, args |-> a,
     signal |-> BCSSignal_init(kw), manager |-> BCSDeviceManager_init(a)]

\* ------------------------------------------------------------------- init

\* the state of a BCSMotor, a BCSSignal, a BCSDeviceManager and a
\* BCSAreaDetector after construction
Built ==
    /\ connected = FALSE
    /\ moveComplete = TRUE
    /\ isMoving = FALSE
    /\ position = InitialPosition
    /\ pc = [t \in Tasks |-> IF t \in Callers THEN "idle" ELSE "none"]
    /\ op = [t \in Tasks |-> "none"]
    /\ cur = [c \in Callers |-> 0]
    /\ loc = [c \in Callers |-> 0]
    /\ nextHandle = 1
    /\ hTimeout = [h \in Handles |-> None]
    /\ hWait = [h \in Handles |-> FALSE]
    /\ outcome = [h \in Handles |-> "none"]
    /\ elapsed = [h \in Handles |-> 0]
    /\ sleepLeft = [h \in Handles |-> 0]
    /\ script = 0
    /\ queue = <<>>
    /\ wire = {}
    /\ begun = <<>>
    /\ callResult = [c \in Callers |-> "none"]
    /\ cmdResult = [h \in Handles |-> "none"]
    /\ pollErr = [h \in Handles |-> FALSE]
    /\ gotComplete = [h \in Handles |-> FALSE]
    /\ overlapped = [h \in Handles |-> FALSE]
    /\ updDur = [h \in Handles |-> 0]
    /\ lastReport = None
    /\ sigConnected = FALSE
    /\ connection_lock = 0
    /\ sigPc = [c \in Coros |-> "idle"]
    /\ sigLoop = [c \in Coros |-> 1]
    /\ sigOp = [c \in Coros |-> "none"]
    /\ sigReply = [c \in Coros |-> None]
    /\ sigResult = [c \in Coros |-> "none"]
    /\ mgrConnected = FALSE
    /\ seen_names = {}
    /\ catalog = <<>>
    /\ mPc = [m \in MCoros |-> "idle"]
    /\ mSock = [m \in MCoros |-> "none"]
    /\ mWaited = [m \in MCoros |-> 0]
    /\ mResponse = [m \in MCoros |-> None]
    /\ mProbe = [m \in MCoros |-> "none"]
    /\ mResult = [m \in MCoros |-> "none"]
    /\ staged = FALSE
    /\ flying = FALSE
    /\ pattern_idx = 0
    /\ image = 0
    /\ nextStatus = 1
    /\ aPc = [a \in Statuses |-> "none"]
    /\ aLocal = [a \in Statuses |-> [pattern |-> 0, idx |-> 0]]
    /\ finished = [a \in Statuses |-> 0]
    /\ detResult = <<"none", "none">>

\* the devices are built, the signal and the manager without a timeout
Init ==
    /\ Built
    /\ descriptor =
           Constructed(
               [name |-> "new_ai_2", originalName |-> "New AI 2",
                itemType |-> "ai", bridgeIP |-> "localhost",
                bridgePort |-> <<"int", ManagerPort>>, units |-> "V",
                timeout |-> None],
               [host |-> "localhost", port |-> ManagerPort,
                timeout_ms |-> None])

\* the devices are built with any of the arguments
InitDescr ==
    /\ Built
    /\ \E kw \in SignalKwargs, a \in ManagerArgs :
           descriptor = Constructed(kw, a)

\* a Move Operation whose monitor thread has not ended
Live(h) == h < nextHandle /\ pc[MonTask(h)] # "done"

\* the monitor thread of h is running
Running(h) == pc[MonTask(h)] \notin {"none", "done"}

\* ----------------------------------------------------------- the connection

\* an _ensure_connected that connects before every transport call
EnsurePc_Reconnect == "connecting"

\* the calls begun and not yet sent, without that of task t
Without(seq, t) == SelectSeq(seq, LAMBDA x : x # t)

\* BCSMotor._ensure_connected as the helper thread's coroutine meets it:
\* connected, it goes on to the transport call (the request is submitted);
\* not connected, it awaits connect
EnsurePc == IF connected THEN "wait" ELSE "connecting"
EnsureQueue(t) == IF connected THEN Append(queue, t) ELSE queue

\* ------------------------------------------------- the caller's operations

\* BCSMotor.move, up to the await in zmq_move_motor's helper thread
move(c, tgt, to, w) ==
    LET h == nextHandle IN
    /\ pc[c] = "idle"
    /\ nextHandle <= MaxMoves
    /\ moveComplete' = FALSE
    /\ isMoving' = TRUE
    /\ pc' = [pc EXCEPT ![c] = EnsurePc]
    /\ queue' = EnsureQueue(c)
    /\ begun' = Append(begun, c)
    /\ op' = [op EXCEPT ![c] = "move"]
    /\ cur' = [cur EXCEPT ![c] = h]
    /\ nextHandle' = h + 1
    /\ hTimeout' = [hTimeout EXCEPT ![h] = to]
    /\ hWait' = [hWait EXCEPT ![h] = w]
    /\ overlapped' =
           [x \in Handles |->
               IF x = h THEN \E y \in Handles : Live(y)
               ELSE overlapped[x] \/ Live(x)]
    /\ UNCHANGED <<connected, position, loc, outcome, elapsed, sleepLeft,
                   script, wire, callResult, cmdResult, pollErr, gotComplete,
                   updDur,
                   lastReport, sigVars>>

\* BCSMotor.stop, up to the await in zmq_stop_motor's helper thread
stop(c) ==
    /\ pc[c] = "idle"
    /\ pc' = [pc EXCEPT ![c] = EnsurePc]
    /\ queue' = EnsureQueue(c)
    /\ begun' = Append(begun, c)
    /\ op' = [op EXCEPT ![c] = "stop"]
    /\ UNCHANGED <<motorVars, cur, loc, moveVars, wire, histVars, sigVars>>

\* BCSMotor.read, up to the await in zmq_get_motor_full_async
read(c) ==
    /\ pc[c] = "idle"
    /\ pc' = [pc EXCEPT ![c] = EnsurePc]
    /\ queue' = EnsureQueue(c)
    /\ begun' = Append(begun, c)
    /\ op' = [op EXCEPT ![c] = "read"]
    /\ UNCHANGED <<motorVars, cur, loc, moveVars, wire, histVars, sigVars>>

\* an accessor that makes sure of the connection first
motorGet_Connect(c) ==
    /\ pc[c] = "idle"
    /\ pc' = [pc EXCEPT ![c] = "get_ret"]
    /\ op' = [op EXCEPT ![c] = "get"]
    /\ loc' = [loc EXCEPT ![c] = position]
    /\ connected' = TRUE
    /\ UNCHANGED <<moveComplete, isMoving, position, cur, moveVars, wireVars,
                   histVars, sigVars>>

\* BCSMotor.get and the property BCSMotor.position: self._position is read
motorGet(c) ==
    /\ pc[c] = "idle"
    /\ pc' = [pc EXCEPT ![c] = "get_ret"]
    /\ op' = [op EXCEPT ![c] = "get"]
    /\ loc' = [loc EXCEPT ![c] = position]
    /\ UNCHANGED <<motorVars, cur, moveVars, wireVars, histVars, sigVars>>

\* BCSMotor.get returns the value it read
GetReturn(c) ==
    /\ pc[c] = "get_ret"
    /\ pc' = [pc EXCEPT ![c] = "idle"]
    /\ op' = [op EXCEPT ![c] = "none"]
    /\ loc' = [loc EXCEPT ![c] = 0]
    /\ UNCHANGED <<motorVars, cur, moveVars, wireVars, histVars, sigVars>>

\* --------------------------------------------- what follows a transport call

\* zmq_move_motor returns (an exception of the helper thread is lost), then
\* move() makes the Status and starts the monitor thread
ResumeMove(c, rep) ==
    LET h == cur[c] IN
    /\ cmdResult' = [cmdResult EXCEPT ![h] = MoveOutcome(rep)]
    /\ outcome' = [outcome EXCEPT ![h] = "pending"]
    /\ pc' = [pc EXCEPT ![c] = IF hWait[h] THEN "join" ELSE "idle",
                        ![MonTask(h)] = "mon_check"]
    /\ op' = [op EXCEPT ![c] = IF hWait[h] THEN "move" ELSE "none",
                        ![MonTask(h)] = "poll"]
    /\ cur' = [cur EXCEPT ![c] = IF hWait[h] THEN h ELSE 0]
    /\ UNCHANGED <<loc, moveComplete, isMoving, position, callResult, pollErr,
                   gotComplete, lastReport>>

\* _zmq_stop_motor_async: how the helper thread's coroutine of task c ends
StopOutcome(c, rep) ==
    IF pc[c] = "connecting" THEN "connect_failed"
    ELSE IF rep.err THEN "conn_lost"
    ELSE IF ~SuccessOf(rep) THEN "refused"
    ELSE "ok"

\* a stop() that cancels the pending Move Operations
ResumeStop_Cancel(c, rep) ==
    /\ isMoving' = FALSE
    /\ pc' = [pc EXCEPT ![c] = "stop_ret"]
    /\ callResult' = [callResult EXCEPT ![c] = StopOutcome(c, rep)]
    /\ outcome' = [h \in Handles |->
                      IF outcome[h] = "pending" THEN "failed" ELSE outcome[h]]
    /\ UNCHANGED <<op, cur, loc, moveComplete, position, cmdResult,
                   pollErr, gotComplete, lastReport>>

\* zmq_stop_motor returns (an exception of the helper thread is lost), then
\* stop() clears isMoving
ResumeStop(c, rep) ==
    /\ isMoving' = FALSE
    /\ pc' = [pc EXCEPT ![c] = "stop_ret"]
    /\ callResult' = [callResult EXCEPT ![c] = StopOutcome(c, rep)]
    /\ UNCHANGED <<op, cur, loc, moveComplete, position, outcome, cmdResult,
                   pollErr, gotComplete, lastReport>>

\* read(): zmq_get_motor_full_async raises, or the position of the first
\* record is stored in self._position
ResumeRead(c, rep) ==
    IF parse_get_motor_full(rep)
    THEN /\ loc' = [loc EXCEPT ![c] = rep.data[1].pos]
         /\ position' = rep.data[1].pos
         /\ lastReport' = Some(rep.data[1].pos)
         /\ pc' = [pc EXCEPT ![c] = "read_ret"]
         /\ UNCHANGED <<op, cur, moveComplete, isMoving, outcome, callResult,
                        cmdResult, pollErr, gotComplete>>
    ELSE /\ pc' = [pc EXCEPT ![c] = "idle"]
         /\ op' = [op EXCEPT ![c] = "none"]
         /\ UNCHANGED <<cur, loc, moveComplete, isMoving, position, outcome,
                        callResult, cmdResult, pollErr, gotComplete,
                        lastReport>>

\* BCSMotor.update: the status is stored, or the exception is logged
update(h, rep) ==
    /\ pc' = [pc EXCEPT ![MonTask(h)] = "mon_eval"]
    /\ IF parse_get_motor_full(rep)
       THEN /\ moveComplete' = rep.data[1].complete
            /\ position' = rep.data[1].pos
            /\ lastReport' = Some(rep.data[1].pos)
            /\ gotComplete' = [gotComplete EXCEPT ![h] = rep.data[1].complete]
            /\ pollErr' = [pollErr EXCEPT ![h] = FALSE]
       ELSE /\ pollErr' = [pollErr EXCEPT ![h] = TRUE]
            /\ gotComplete' = [gotComplete EXCEPT ![h] = FALSE]
            /\ UNCHANGED <<moveComplete, position, lastReport>>
    /\ UNCHANGED <<op, cur, loc, isMoving, outcome, callResult, cmdResult>>

\* The rest of the operation of task t once its transport call (or the
\* connect before it) has ended with rep.  It sets pc, op, cur, loc,
\* moveComplete, isMoving, position, outcome, callResult, cmdResult, pollErr,
\* gotComplete and lastReport; the action that uses it sets the others.
Resume(t, rep) ==
    CASE op[t] = "move" -> ResumeMove(t, rep)
      [] op[t] = "stop" -> ResumeStop(t, rep)
      [] op[t] = "read" -> ResumeRead(t, rep)
      [] op[t] = "poll" -> update(HandleOf(t), rep)

\* the variables no transport action and no Resume sets
restVars ==
    <<nextHandle, hTimeout, hWait, elapsed, sleepLeft, script, overlapped,
      updDur>>

\* ------------------------------------------------------------ the transport

\* connect returned: self._connected = True, and the coroutine goes on to
\* its transport call
ConnectOk(t) ==
    /\ pc[t] = "connecting"
    /\ connected' = TRUE
    /\ pc' = [pc EXCEPT ![t] = "wait"]
    /\ queue' = Append(queue, t)
    /\ UNCHANGED <<moveComplete, isMoving, position, op, cur, loc,
                   moveVars, wire, begun, histVars, sigVars>>

\* connect raised: the coroutine ends with the exception
ConnectFail(t) ==
    /\ pc[t] = "connecting"
    /\ Resume(t, ErrReply)
    /\ begun' = Without(begun, t)
    /\ UNCHANGED <<connected, queue, wire, restVars, sigVars>>

\* a transport that sends a request while another one is in flight
CanSend_Always == TRUE

\* a request goes on the wire only when no other one is in flight
CanSend == wire = {}

\* the oldest submitted request is sent
Send ==
    /\ queue # <<>>
    /\ CanSend
    /\ wire' = wire \cup {Head(queue)}
    /\ queue' = Tail(queue)
    /\ begun' = Without(begun, Head(queue))
    /\ UNCHANGED <<motorVars, threadVars, moveVars, histVars, sigVars>>

\* the reply (or the failure) of the request of t comes back
Reply(t, rep) ==
    /\ t \in wire
    /\ rep \in RepliesFor(op[t])
    /\ wire' = wire \ {t}
    /\ Resume(t, rep)
    /\ UNCHANGED <<connected, queue, begun, restVars, sigVars>>

\* The scripted server of the design document's scenario: it accepts the
\* move command with {success: true}, ...
OkCommand ==
    [err |-> FALSE, success |-> "true", notFound |-> FALSE,
     timedOut |-> FALSE, data |-> None]

\* ... answers the first three status polls with {success: true}, and then
\* with a status record (Move Complete at the target, here MaxPos) in a
\* reply that has no success field
ScriptStatus ==
    LET ok == [err |-> FALSE, success |-> "true", notFound |-> FALSE,
               timedOut |-> FALSE, data |-> None]
        final == [err |-> FALSE, success |-> "absent", notFound |-> FALSE,
                  timedOut |-> FALSE,
                  data |-> Some([complete |-> TRUE, pos |-> MaxPos])]
    IN  <<ok, ok, ok, final>>

\* the scripted server has sent the last reply of its script
ScriptEnded == script = Len(ScriptStatus)

\* the reply of the scripted server to the request of t comes back; after
\* the end of the script it repeats the last reply
ScriptReply(t) ==
    /\ t \in wire
    /\ op[t] \in {"move", "poll"}
    /\ wire' = wire \ {t}
    /\ IF op[t] = "move"
       THEN /\ Resume(t, OkCommand)
            /\ UNCHANGED script
       ELSE /\ script' = IF ScriptEnded THEN script ELSE script + 1
            /\ Resume(t, ScriptStatus[script'])
    /\ UNCHANGED <<connected, queue, begun, nextHandle, hTimeout, hWait,
                   elapsed, sleepLeft, overlapped, updDur, sigVars>>

\* ------------------------------------------------------ the monitor thread

\* elapsed_time is read only when a timeout is given; only then is it kept
Timed(h) == Truthy(hTimeout[h])

\* `if timeout and elapsed_time > timeout'
TimedOut(h) == Truthy(hTimeout[h]) /\ elapsed[h] > hTimeout[h][1]

\* a loop that tests the other status flag
MoveDone_NotMoving == ~isMoving

\* `if self.moveComplete'
MoveDone == moveComplete

\* time.sleep(check_interval)
SleepFor == PollInterval

\* a loop that goes on after it has settled the Status
Break_Continue == "mon_check"

\* `break': where the monitor thread is after it has settled the Status
Break == "done"

\* a loop that sends a command to the server when it times out
OnTimeout_Send(t) == Append(queue, t)

\* after status.set_exception(TimeoutError) the loop ends: the thread submits
\* nothing
OnTimeout(t) == queue

\* monitor_motor_status: the top of the loop (after the sleep), up to the
\* await in update()'s helper thread
MonCheck(h) ==
    LET t == MonTask(h) IN
    /\ pc[t] = "mon_check"
    /\ sleepLeft[h] = 0
    /\ IF TimedOut(h)
       THEN /\ outcome' = [outcome EXCEPT ![h] = "timedOut"]
            /\ pc' = [pc EXCEPT ![t] = Break]
            /\ elapsed' = [elapsed EXCEPT ![h] = 0]
            /\ updDur' = [updDur EXCEPT ![h] = 0]
            /\ overlapped' = [overlapped EXCEPT ![h] = FALSE]
            /\ queue' = OnTimeout(t)
            /\ UNCHANGED begun
       ELSE /\ pc' = [pc EXCEPT ![t] = EnsurePc]
            /\ queue' = EnsureQueue(t)
            /\ begun' = Append(begun, t)
            /\ updDur' = [updDur EXCEPT ![h] = 0]
            /\ UNCHANGED <<outcome, elapsed, overlapped>>
    /\ UNCHANGED <<motorVars, op, cur, loc, nextHandle, hTimeout, hWait,
                   sleepLeft, wire, callResult, cmdResult, pollErr,
                   gotComplete, lastReport, sigVars,
                   script>>

\* a loop that clears isMoving when it settles the Status as finished
MonEval_ClearsMoving(h) ==
    LET t == MonTask(h) IN
    /\ pc[t] = "mon_eval"
    /\ IF MoveDone
       THEN /\ outcome' = [outcome EXCEPT ![h] = "succeeded"]
            /\ pc' = [pc EXCEPT ![t] = Break]
            /\ elapsed' = [elapsed EXCEPT ![h] = 0]
            /\ updDur' = [updDur EXCEPT ![h] = 0]
            /\ overlapped' = [overlapped EXCEPT ![h] = FALSE]
            /\ isMoving' = FALSE
            /\ UNCHANGED sleepLeft
       ELSE /\ sleepLeft' = [sleepLeft EXCEPT ![h] = SleepFor]
            /\ pc' = [pc EXCEPT ![t] = "mon_check"]
            /\ UNCHANGED <<outcome, elapsed, updDur, overlapped, isMoving>>
    /\ cmdResult' = [cmdResult EXCEPT ![h] = "none"]
    /\ pollErr' = [pollErr EXCEPT ![h] = FALSE]
    /\ gotComplete' = [gotComplete EXCEPT ![h] = FALSE]
    /\ UNCHANGED <<connected, moveComplete, position, op, cur, loc,
                   nextHandle, hTimeout, hWait, wireVars, callResult,
                   lastReport, sigVars,
                   script>>

\* monitor_motor_status: after update(), the test of self.moveComplete
MonEval(h) ==
    LET t == MonTask(h) IN
    /\ pc[t] = "mon_eval"
    /\ IF MoveDone
       THEN /\ outcome' = [outcome EXCEPT ![h] = "succeeded"]
            /\ pc' = [pc EXCEPT ![t] = Break]
            /\ elapsed' = [elapsed EXCEPT ![h] = 0]
            /\ updDur' = [updDur EXCEPT ![h] = 0]
            /\ overlapped' = [overlapped EXCEPT ![h] = FALSE]
            /\ UNCHANGED sleepLeft
       ELSE /\ sleepLeft' = [sleepLeft EXCEPT ![h] = SleepFor]
            /\ pc' = [pc EXCEPT ![t] = "mon_check"]
            /\ UNCHANGED <<outcome, elapsed, updDur, overlapped>>
    /\ cmdResult' = [cmdResult EXCEPT ![h] = "none"]
    /\ pollErr' = [pollErr EXCEPT ![h] = FALSE]
    /\ gotComplete' = [gotComplete EXCEPT ![h] = FALSE]
    /\ UNCHANGED <<motorVars, op, cur, loc, nextHandle, hTimeout, hWait,
                   wireVars, callResult, lastReport, sigVars,
                   script>>

\* move(wait=True): monitor_thread_instance.join(timeout) returns
MoveJoin(c) ==
    LET h == cur[c] IN
    /\ pc[c] = "join"
    /\ \/ pc[MonTask(h)] = "done"
       \/ hTimeout[h] # None /\ elapsed[h] >= hTimeout[h][1]
    /\ pc' = [pc EXCEPT ![c] = "idle"]
    /\ op' = [op EXCEPT ![c] = "none"]
    /\ cur' = [cur EXCEPT ![c] = 0]
    /\ UNCHANGED <<motorVars, loc, moveVars, wireVars, histVars, sigVars>>

\* a read() that returns the position the motor was built with
ReadValue_Initial == InitialPosition

\* the value a read() at "read_ret" returns: it is built from self._position
ReadValue == position

\* read() returns
ReadReturn(c) ==
    /\ pc[c] = "read_ret"
    /\ pc' = [pc EXCEPT ![c] = "idle"]
    /\ op' = [op EXCEPT ![c] = "none"]
    /\ loc' = [loc EXCEPT ![c] = 0]
    /\ UNCHANGED <<motorVars, cur, moveVars, wireVars, histVars, sigVars>>

\* stop() returns
StopReturn(c) ==
    /\ pc[c] = "stop_ret"
    /\ pc' = [pc EXCEPT ![c] = "idle"]
    /\ op' = [op EXCEPT ![c] = "none"]
    /\ callResult' = [callResult EXCEPT ![c] = "none"]
    /\ UNCHANGED <<motorVars, cur, loc, moveVars, wireVars, cmdResult, pollErr,
                   gotComplete, overlapped, updDur, lastReport, sigVars>>

\* --------------------------------------------------------------------- time

InUpdate(h) == pc[MonTask(h)] \in {"connecting", "wait", "mon_eval"}

\* a monitor whose sleep has ended runs before the clock advances
Due(h) == pc[MonTask(h)] = "mon_check" /\ sleepLeft[h] = 0

\* one poll interval passes
Tick ==
    /\ \E h \in Handles : Running(h)
    /\ \A h \in Handles : ~Due(h)
    /\ \A h \in Handles : (Running(h) /\ Timed(h)) => elapsed[h] < MaxElapsed
    /\ elapsed' = [h \in Handles |->
                      IF Running(h) /\ Timed(h)
                      THEN elapsed[h] + 1 ELSE elapsed[h]]
    /\ sleepLeft' = [h \in Handles |->
                        IF sleepLeft[h] > 0 THEN sleepLeft[h] - 1 ELSE 0]
    /\ updDur' = [h \in Handles |->
                     IF InUpdate(h) /\ Timed(h)
                     THEN updDur[h] + 1 ELSE updDur[h]]
    /\ UNCHANGED <<motorVars, threadVars, nextHandle, hTimeout, hWait,
                   outcome, wireVars, callResult, cmdResult, pollErr,
                   gotComplete, overlapped, lastReport, sigVars,
                   script>>

\* ---------------------------------------------------------------- BCSSignal

\* The thread of event loop l is inside a blocking acquire of
\* self._connection_lock (a threading.Lock): until it returns the loop runs
\* no coroutine.
Stuck(l) == \E d \in Coros : sigPc[d] = "blocked" /\ sigLoop[d] = l

\* What a get() of the analog channel can be answered: as for the motor,
\* data being None (no or empty list) or Some of the first value.
SigReplies ==
    {ErrReply} \cup
    [err : {FALSE}, success : Success, notFound : BOOLEAN,
     timedOut : {FALSE}, data : {None} \cup {Some(v) : v \in Pos}]

\* a get() that returns a default value when the reply has no data
GetOutcome_Default(rep) ==
    IF rep.err THEN "ConnectionError"
    ELSE IF ~SuccessOf(rep) THEN "RemoteError"
    ELSE IF rep.notFound THEN "NotFound"
    ELSE "value"

\* a get() that looks at not_found before it looks at success
GetOutcome_NotFoundFirst(rep) ==
    IF rep.err THEN "ConnectionError"
    ELSE IF rep.notFound THEN "NotFound"
    ELSE IF ~SuccessOf(rep) THEN "RemoteError"
    ELSE IF rep.data # None THEN "value"
    ELSE "NoData"

\* BCSSignal.get, itemType "ai", after the reply: the value is returned,
\* or RuntimeError (RemoteError) or ValueError (NotFound, NoData) is raised
GetOutcome(rep) ==
    IF rep.err THEN "ConnectionError"
    ELSE IF ~SuccessOf(rep) THEN "RemoteError"
    ELSE IF rep.notFound THEN "NotFound"
    ELSE IF rep.data # None THEN "value"
    ELSE "NoData"

\* BCSSignal.set, itemType "motor", after the reply to the move command: the
\* response is returned, or RuntimeError, ValueError or TimeoutError raised
SetOutcome(rep) ==
    IF rep.err THEN "ConnectionError"
    ELSE IF ~SuccessOf(rep) THEN "RemoteError"
    ELSE IF rep.notFound THEN "NotFound"
    ELSE IF rep.timedOut THEN "TimedOut"
    ELSE "ok"

\* ensure_connected has returned to operation o of coroutine c: get() goes
\* on to its transport call; set(), itemType "ai", raises
\* NotImplementedError
Ensured(c, o) ==
    IF o = "set"
    THEN /\ sigPc' = [sigPc EXCEPT ![c] = "idle"]
         /\ sigResult' = [sigResult EXCEPT ![c] = "Unsupported"]
    ELSE /\ sigPc' = [sigPc EXCEPT ![c] = "call"]
         /\ sigResult' = [sigResult EXCEPT ![c] = "none"]

\* ensure_connected, inside `with self._connection_lock': connected, the
\* lock is released and the operation goes on; not connected, the coroutine
\* is suspended in `await connect' holding the lock
Locked(c, o) ==
    IF sigConnected
    THEN /\ Ensured(c, o)
         /\ connection_lock' = 0
    ELSE /\ sigPc' = [sigPc EXCEPT ![c] = "connecting"]
         /\ sigResult' = [sigResult EXCEPT ![c] = "none"]
         /\ connection_lock' = c

\* operation o (get or set) of the BCSSignal on event loop l, up to the
\* first await: ensure_connected takes the lock or blocks the thread of the
\* loop
Enter(c, l, o) ==
    /\ sigPc[c] = "idle"
    /\ ~Stuck(l)
    /\ sigLoop' = [sigLoop EXCEPT ![c] = l]
    /\ sigOp' = [sigOp EXCEPT ![c] = o]
    /\ IF connection_lock = 0
       THEN Locked(c, o)
       ELSE /\ sigPc' = [sigPc EXCEPT ![c] = "blocked"]
            /\ sigResult' = [sigResult EXCEPT ![c] = "none"]
            /\ UNCHANGED connection_lock
    /\ UNCHANGED <<sigConnected, sigReply, motorVars, threadVars, moveVars,
                   wireVars, histVars, otherVars>>

\* BCSSignal.get
get(c, l) == Enter(c, l, "get")

\* BCSSignal.set (and put, which delegates to it)
set(c, l) == Enter(c, l, "set")

\* BCSSignal.set on a signal whose itemType is "motor": after
\* ensure_connected it calls the transport (move_motor)
setMotor(c, l) == Enter(c, l, "set_motor")

\* the blocking acquire returns once the lock is free
Acquire(c) ==
    /\ sigPc[c] = "blocked"
    /\ connection_lock = 0
    /\ Locked(c, sigOp[c])
    /\ UNCHANGED <<sigConnected, sigLoop, sigOp, sigReply, motorVars,
                   threadVars, moveVars, wireVars, histVars, otherVars>>

\* a connect that stores the transport's timeout in the signal
SigConnectOk_SetsTimeout(c) ==
    /\ sigPc[c] = "connecting"
    /\ ~Stuck(sigLoop[c])
    /\ sigConnected' = TRUE
    /\ connection_lock' = 0
    /\ Ensured(c, sigOp[c])
    /\ descriptor' =
           [descriptor EXCEPT !.signal.timeout = descriptor.manager.timeout_ms]
    /\ UNCHANGED <<mgrVars, detVars>>
    /\ UNCHANGED <<sigLoop, sigOp, sigReply, motorVars, threadVars, moveVars,
                   wireVars, histVars>>

\* ensure_connected: connect returned and the loop resumes the coroutine
SigConnectOk(c) ==
    /\ sigPc[c] = "connecting"
    /\ ~Stuck(sigLoop[c])
    /\ sigConnected' = TRUE
    /\ connection_lock' = 0
    /\ Ensured(c, sigOp[c])
    /\ UNCHANGED <<sigLoop, sigOp, sigReply, motorVars, threadVars, moveVars,
                   wireVars, histVars, otherVars>>

\* an ensure_connected that takes the lock with acquire() and returns
\* it only after a connect that succeeded
SigConnectFail_KeepsLock(c) ==
    /\ sigPc[c] = "connecting"
    /\ ~Stuck(sigLoop[c])
    /\ sigPc' = [sigPc EXCEPT ![c] = "idle"]
    /\ sigResult' = [sigResult EXCEPT ![c] = "ConnectionError"]
    /\ UNCHANGED <<sigConnected, connection_lock, sigLoop, sigOp, sigReply,
                   motorVars, threadVars, moveVars, wireVars, histVars,
                   otherVars>>

\* ensure_connected: connect raised, the operation ends with ConnectionError
SigConnectFail(c) ==
    /\ sigPc[c] = "connecting"
    /\ ~Stuck(sigLoop[c])
    /\ connection_lock' = 0
    /\ sigPc' = [sigPc EXCEPT ![c] = "idle"]
    /\ sigResult' = [sigResult EXCEPT ![c] = "ConnectionError"]
    /\ UNCHANGED <<sigConnected, sigLoop, sigOp, sigReply, motorVars,
                   threadVars, moveVars, wireVars, histVars, otherVars>>

\* get(), or set() with itemType "motor": the transport call (get_freerun,
\* move_motor) ends with rep
SigReply(c, rep) ==
    /\ sigPc[c] = "call"
    /\ ~Stuck(sigLoop[c])
    /\ sigPc' = [sigPc EXCEPT ![c] = "got"]
    /\ sigReply' = [sigReply EXCEPT ![c] = Some(rep)]
    /\ UNCHANGED <<sigConnected, connection_lock, sigLoop, sigOp, sigResult,
                   motorVars, threadVars, moveVars, wireVars, histVars,
                   otherVars>>

\* the reply is examined, and get() or set() returns or raises
SigFinish(c) ==
    /\ sigPc[c] = "got"
    /\ ~Stuck(sigLoop[c])
    /\ sigPc' = [sigPc EXCEPT ![c] = "idle"]
    /\ sigResult' =
           [sigResult EXCEPT
               ![c] = IF sigOp[c] = "set_motor"
                      THEN SetOutcome(sigReply[c][1])
                      ELSE GetOutcome(sigReply[c][1])]
    /\ sigReply' = [sigReply EXCEPT ![c] = None]
    /\ UNCHANGED <<sigConnected, connection_lock, sigLoop, sigOp, motorVars,
                   threadVars, moveVars, wireVars, histVars, otherVars>>

\* ------------------------------------------------------- BCSDeviceManager

\* The names a configuration gives its devices: sequences of characters,
\* among them an upper-case letter, a blank and a digit.
DeviceNames == {<<"A">>, <<"a">>, <<"B">>, <<"1">>, <<" ", "1">>}

\* \w of the regular expression
IsWord(ch) == ch \in {"A", "B", "a", "b", "1", "_"}

\* \d of the regular expression
IsDigit(ch) == ch = "1"

\* str.lower() on one character
Lower(ch) ==
    CASE ch = "A" -> "a"
      [] ch = "B" -> "b"
      [] OTHER -> ch

\* re.sub(r'\W|^(?=\d)', '_', name).lower(): every character that is not
\* a word character becomes "_", a "_" is put before a leading digit, and
\* the letters are lowered
SanitizeRe(name) ==
    LET subbed == [i \in 1..Len(name) |->
                      IF IsWord(name[i]) THEN name[i] ELSE "_"]
        pre == IF name # <<>> /\ IsDigit(name[1])
               THEN <<"_">> \o subbed ELSE subbed
    IN  [i \in 1..Len(pre) |-> Lower(pre[i])]

\* a dict is a set of <<key, value>> pairs with one pair for a key
Keys(d) == {kv[1] : kv \in d}
Put(d, k, v) == {kv \in d : kv[1] # k} \cup {<<k, v>>}

\* a _sanitize_name that registers the name without looking it up
Collides_Never(seen, new_name) == FALSE

\* _sanitize_name: `if new_name in self.seen_names'
Collides(seen, new_name) == new_name \in Keys(seen)

\* parse_and_populate_motors / parse_and_populate_ais: the loop over the
\* devices of one section.  st is [seen, cat, ok]; a name collision raises
\* RuntimeError in _sanitize_name, before the item is made: the loop ends
\* with ok false and what the earlier devices have added stays.
RECURSIVE Register(_, _, _)
Register(devs, itemType, st) ==
    IF devs = <<>> THEN st
    ELSE LET name == Head(devs)
             new_name == SanitizeRe(name)
         IN  IF Collides(st.seen, new_name)
             THEN [st EXCEPT !.ok = FALSE]
             ELSE Register(Tail(devs), itemType,
                      [seen |-> Put(st.seen, new_name, name),
                       cat |-> Append(st.cat,
                                  [name |-> new_name, originalName |-> name,
                                   itemType |-> itemType]),
                       ok |-> TRUE])

\* populate_client_from_config_async, after the configuration is parsed:
\* the motors, then the analog inputs
Populate(cfg, seen, cat) ==
    LET m == Register(cfg.motors, "motor",
                      [seen |-> seen, cat |-> cat, ok |-> TRUE])
    IN  IF m.ok THEN Register(cfg.ais, "ai", m) ELSE m

SeqUpTo(S, n) == UNION {[1..k -> S] : k \in 0..n}

\* the configurations a server can hold
Configs ==
    [motors : SeqUpTo(DeviceNames, MaxMotors),
     ais : SeqUpTo(DeviceNames, MaxAIs)]

\* a configuration is valid when its devices have distinct sanitized names
Valid(cfg) == Populate(cfg, {}, <<>>).ok

\* How get_bcsconfiguration ends: the call raises, the response is empty,
\* success is false or absent, there is no "configuration" key, the
\* configuration is no JSON, or it is the configuration cfg.
ConfigReplies ==
    {[kind |-> k, cfg |-> [motors |-> <<>>, ais |-> <<>>]] :
        k \in {"raise", "empty", "refused", "no_config", "bad_json"}}
    \cup {[kind |-> "config", cfg |-> c] : c \in Configs}

\* check_server_connection_async returns False: the except clauses and the
\* last line, after `finally: socket.close(linger=0)'; connect() returns
\* False
ProbeFalse(m) ==
    /\ mSock' = [mSock EXCEPT ![m] = "closed"]
    /\ mProbe' = [mProbe EXCEPT ![m] = "False"]
    /\ mResult' = [mResult EXCEPT ![m] = "False"]
    /\ mPc' = [mPc EXCEPT ![m] = "idle"]
    /\ mResponse' = [mResponse EXCEPT ![m] = None]

\* a connect() that probes and populates whether or not it is connected
AlreadyConnected_Never == FALSE

\* connect(): `if self._connected: return True'
AlreadyConnected == mgrConnected

\* BCSDeviceManager.connect, up to the first await: it is about to return
\* True, or check_server_connection_async makes the probe socket and
\* socket.connect raises (sockOk false) or the coroutine awaits socket.send
connect(m, sockOk) ==
    /\ mPc[m] = "idle"
    /\ IF AlreadyConnected
       THEN /\ mPc' = [mPc EXCEPT ![m] = "return_true"]
            /\ mResult' = [mResult EXCEPT ![m] = "none"]
            /\ UNCHANGED <<mSock, mProbe, mResponse>>
       ELSE IF sockOk
       THEN /\ mSock' = [mSock EXCEPT ![m] = "open"]
            /\ mPc' = [mPc EXCEPT ![m] = "probe_send"]
            /\ mProbe' = [mProbe EXCEPT ![m] = "none"]
            /\ mResult' = [mResult EXCEPT ![m] = "none"]
            /\ UNCHANGED mResponse
       ELSE ProbeFalse(m)
    /\ UNCHANGED <<mgrConnected, seen_names, catalog, mWaited, nonMgrVars>>

\* connect(): `return True' of a manager that was connected already
ConnectReturn(m) ==
    /\ mPc[m] = "return_true"
    /\ mPc' = [mPc EXCEPT ![m] = "idle"]
    /\ mResult' = [mResult EXCEPT ![m] = "True"]
    /\ UNCHANGED <<mgrConnected, seen_names, catalog, mSock, mWaited,
                   mResponse, mProbe, nonMgrVars>>

\* `await socket.send(b'public')' returns or raises
ProbeSend(m, ok) ==
    /\ mPc[m] = "probe_send"
    /\ IF ok
       THEN /\ mPc' = [mPc EXCEPT ![m] = "probe_recv"]
            /\ mWaited' = [mWaited EXCEPT ![m] = 0]
            /\ UNCHANGED <<mSock, mProbe, mResult, mResponse>>
       ELSE /\ ProbeFalse(m)
            /\ UNCHANGED mWaited
    /\ UNCHANGED <<mgrConnected, seen_names, catalog, nonMgrVars>>

\* `response = await socket.recv()': a reply (with or without content)
\* arrives before RCVTIMEO has passed, or recv raises another error
ProbeRecv(m, resp) ==
    /\ mPc[m] = "probe_recv"
    /\ IF resp = "error"
       THEN ProbeFalse(m)
       ELSE /\ mWaited[m] < ProbeTimeout
            /\ mResponse' = [mResponse EXCEPT ![m] = Some(resp)]
            /\ mPc' = [mPc EXCEPT ![m] = "probe_got"]
            /\ UNCHANGED <<mSock, mProbe, mResult>>
    /\ UNCHANGED <<mgrConnected, seen_names, catalog, mWaited, nonMgrVars>>

\* a probe that leaves its socket open when recv times out
ProbeAgain_LeavesOpen(m) ==
    /\ mPc[m] = "probe_recv"
    /\ mWaited[m] = ProbeTimeout
    /\ mProbe' = [mProbe EXCEPT ![m] = "False"]
    /\ mResult' = [mResult EXCEPT ![m] = "False"]
    /\ mPc' = [mPc EXCEPT ![m] = "idle"]
    /\ UNCHANGED <<mgrConnected, seen_names, catalog, mSock, mResponse,
                   mWaited, nonMgrVars>>

\* recv raises zmq.error.Again: no reply within timeout_ms
ProbeAgain(m) ==
    /\ mPc[m] = "probe_recv"
    /\ mWaited[m] = ProbeTimeout
    /\ ProbeFalse(m)
    /\ UNCHANGED <<mgrConnected, seen_names, catalog, mWaited, nonMgrVars>>

\* `if response: return True', else the `return False' of the last line;
\* either way after `finally: socket.close(linger=0)'.  On True connect()
\* goes on to populate_client_from_config_async, up to the await in
\* connect_to_bcs_server.
ProbeReturn(m) ==
    /\ mPc[m] = "probe_got"
    /\ IF mResponse[m] = Some("data")
       THEN /\ mSock' = [mSock EXCEPT ![m] = "closed"]
            /\ mProbe' = [mProbe EXCEPT ![m] = "True"]
            /\ mPc' = [mPc EXCEPT ![m] = "server_connect"]
            /\ mResponse' = [mResponse EXCEPT ![m] = None]
            /\ UNCHANGED mResult
       ELSE ProbeFalse(m)
    /\ UNCHANGED <<mgrConnected, seen_names, catalog, mWaited, nonMgrVars>>

\* time passes for the probes waiting in recv
MgrTick ==
    /\ \E m \in MCoros : mPc[m] = "probe_recv" /\ mWaited[m] < ProbeTimeout
    /\ mWaited' = [m \in MCoros |->
                      IF mPc[m] = "probe_recv" /\ mWaited[m] < ProbeTimeout
                      THEN mWaited[m] + 1 ELSE mWaited[m]]
    /\ UNCHANGED <<mgrConnected, seen_names, catalog, mPc, mSock, mResponse,
                   mProbe, mResult, nonMgrVars>>

\* connect_to_bcs_server: bcs_server.connect returned; the coroutine awaits
\* get_bcsconfiguration
MgrConnectOk(m) ==
    /\ mPc[m] = "server_connect"
    /\ mPc' = [mPc EXCEPT ![m] = "config"]
    /\ UNCHANGED <<mgrConnected, seen_names, catalog, mSock, mWaited,
                   mResponse, mProbe, mResult, nonMgrVars>>

\* connect_to_bcs_server: bcs_server.connect raised, ValueError is raised
\* and connect() returns False
MgrConnectFail(m) ==
    /\ mPc[m] = "server_connect"
    /\ mPc' = [mPc EXCEPT ![m] = "idle"]
    /\ mResult' = [mResult EXCEPT ![m] = "False"]
    /\ UNCHANGED <<mgrConnected, seen_names, catalog, mSock, mWaited,
                   mResponse, mProbe, nonMgrVars>>

\* populate_client_from_config_async from the reply to get_bcsconfiguration
\* on, and the rest of connect(): every exception makes connect() return
\* False; when the devices are registered self._connected is set and
\* connect() returns True
ConfigReply(m, rep) ==
    /\ mPc[m] = "config"
    /\ mPc' = [mPc EXCEPT ![m] = "idle"]
    /\ IF rep.kind = "config"
       THEN LET r == Populate(rep.cfg, seen_names, catalog)
            IN  /\ seen_names' = r.seen
                /\ catalog' = r.cat
                /\ mgrConnected' = (mgrConnected \/ r.ok)
                /\ mResult' = [mResult EXCEPT
                                  ![m] = IF r.ok THEN "True" ELSE "False"]
       ELSE /\ mResult' = [mResult EXCEPT ![m] = "False"]
            /\ UNCHANGED <<mgrConnected, seen_names, catalog>>
    /\ UNCHANGED <<mSock, mWaited, mResponse, mProbe, nonMgrVars>>

\* ------------------------------------------------------- BCSAreaDetector

\* len(self._patterns)
NPatterns == 3

\* stage(): nothing when staged already, else _staged and _pattern_idx are
\* set
stage ==
    /\ staged' = TRUE
    /\ pattern_idx' = IF staged THEN pattern_idx ELSE 0
    /\ detResult' = <<"stage", "ok">>
    /\ UNCHANGED <<flying, image, nextStatus, aPc, aLocal, finished,
                   nonDetVars>>

\* unstage(): nothing when not staged, else _staged is cleared
unstage ==
    /\ staged' = FALSE
    /\ detResult' = <<"unstage", "ok">>
    /\ UNCHANGED <<flying, pattern_idx, image, nextStatus, aPc, aLocal,
                   finished, nonDetVars>>

\* kickoff(): stages when not staged, sets _flying, returns a finished
\* status
kickoff ==
    /\ staged' = TRUE
    /\ flying' = TRUE
    /\ pattern_idx' = 0
    /\ detResult' = <<"kickoff", "ok">>
    /\ UNCHANGED <<image, nextStatus, aPc, aLocal, finished, nonDetVars>>

\* complete(): raises RuntimeError unless flying, else clears _flying and
\* returns a finished status
complete ==
    /\ IF flying
       THEN flying' = FALSE /\ detResult' = <<"complete", "ok">>
       ELSE detResult' = <<"complete", "raised">> /\ UNCHANGED flying
    /\ UNCHANGED <<staged, pattern_idx, image, nextStatus, aPc, aLocal,
                   finished, nonDetVars>>

\* trigger(): `if not self._staged: raise RuntimeError'
MustBeStaged == ~staged

\* trigger(): raises, or makes a DeviceStatus and starts the thread that
\* runs acquire_frame(status)
trigger ==
    /\ nextStatus <= NTriggers
    /\ IF MustBeStaged
       THEN /\ detResult' = <<"trigger", "raised">>
            /\ UNCHANGED <<nextStatus, aPc>>
       ELSE /\ detResult' = <<"trigger", "ok">>
            /\ aPc' = [aPc EXCEPT ![nextStatus] = "pattern"]
            /\ nextStatus' = nextStatus + 1
    /\ UNCHANGED <<staged, flying, pattern_idx, image, aLocal, finished,
                   nonDetVars>>

\* acquire_frame: pattern = self._patterns[self._pattern_idx % len(...)]
AcqPattern(a) ==
    /\ aPc[a] = "pattern"
    /\ aLocal' = [aLocal EXCEPT ![a].pattern = pattern_idx % NPatterns]
    /\ aPc' = [aPc EXCEPT ![a] = "load"]
    /\ UNCHANGED <<staged, flying, pattern_idx, image, nextStatus, finished,
                   detResult, nonDetVars>>

\* acquire_frame: `self._pattern_idx += 1' reads the attribute ...
AcqLoad(a) ==
    /\ aPc[a] = "load"
    /\ aLocal' = [aLocal EXCEPT ![a].idx = pattern_idx]
    /\ aPc' = [aPc EXCEPT ![a] = "store"]
    /\ UNCHANGED <<staged, flying, pattern_idx, image, nextStatus, finished,
                   detResult, nonDetVars>>

\* ... and stores the sum (no lock is held between the two)
AcqStore(a) ==
    /\ aPc[a] = "store"
    /\ pattern_idx' = aLocal[a].idx + 1
    /\ aPc' = [aPc EXCEPT ![a] = "put"]
    /\ UNCHANGED <<staged, flying, image, nextStatus, aLocal, finished,
                   detResult, nonDetVars>>

\* acquire_frame: self.image.put(pattern) and self.total_intensity.put of
\* its sum
AcqPut(a) ==
    /\ aPc[a] = "put"
    /\ image' = aLocal[a].pattern
    /\ aPc' = [aPc EXCEPT ![a] = "finish"]
    /\ UNCHANGED <<staged, flying, pattern_idx, nextStatus, aLocal, finished,
                   detResult, nonDetVars>>

\* an acquire_frame that finishes the status of the latest trigger()
AcqFinish_Latest(a) ==
    /\ aPc[a] = "finish"
    /\ finished' = [finished EXCEPT ![nextStatus - 1] = @ + 1]
    /\ aPc' = [aPc EXCEPT ![a] = "done"]
    /\ UNCHANGED <<staged, flying, pattern_idx, image, nextStatus, aLocal,
                   detResult, nonDetVars>>

\* acquire_frame: status._finished(), and the thread ends
AcqFinish(a) ==
    /\ aPc[a] = "finish"
    /\ finished' = [finished EXCEPT ![a] = @ + 1]
    /\ aPc' = [aPc EXCEPT ![a] = "done"]
    /\ UNCHANGED <<staged, flying, pattern_idx, image, nextStatus, aLocal,
                   detResult, nonDetVars>>

\* ------------------------------------------------------------ specification

\* what the threads, the transport and the clock do, whoever the callers are
System ==
    \/ \E t \in Tasks : ConnectOk(t)
    \/ \E t \in Tasks : ConnectFail(t)
    \/ Send
    \/ \E t \in Tasks : \E rep \in RepliesFor(op[t]) : Reply(t, rep)
    \/ \E h \in Handles : MonCheck(h)
    \/ \E h \in Handles : MonEval(h)
    \/ \E c \in Callers : MoveJoin(c)
    \/ \E c \in Callers : ReadReturn(c)
    \/ \E c \in Callers : StopReturn(c)
    \/ Tick

\* Concurrent callers: every caller thread runs move (without a timeout),
\* stop, read and get; ConcMoves Move Operations.
Next ==
    \/ \E c \in Callers, tgt \in Pos, w \in BOOLEAN :
           nextHandle <= ConcMoves /\ move(c, tgt, None, w)
    \/ \E c \in Callers : stop(c)
    \/ \E c \in Callers : read(c)
    \/ \E c \in Callers : motorGet(c)
    \/ \E c \in Callers : GetReturn(c)
    \/ System

Spec == Init /\ [][Next]_vars

\* Timed moves: TimedCallers caller threads run move with every timeout,
\* stop and read; TimedMoves Move Operations.
NextTimed ==
    \/ \E c \in 1..TimedCallers, tgt \in Pos, to \in Timeouts, w \in BOOLEAN :
           nextHandle <= TimedMoves /\ move(c, tgt, to, w)
    \/ \E c \in 1..TimedCallers : stop(c)
    \/ \E c \in 1..TimedCallers : read(c)
    \/ System

SpecTimed == Init /\ [][NextTimed]_vars

\* Successive moves: SeqCallers caller threads run move (with every timeout),
\* stop and read; MaxMoves Move Operations, each started when the one before
\* it has ended (one live Move Operation per device: the design document,
\* section 3).
NextMoves ==
    \/ \E c \in 1..SeqCallers, tgt \in Pos, to \in Timeouts, w \in BOOLEAN :
           (\A h \in Handles : ~Live(h)) /\ move(c, tgt, to, w)
    \/ \E c \in 1..SeqCallers : stop(c)
    \/ \E c \in 1..SeqCallers : read(c)
    \/ System

SpecMoves == Init /\ [][NextMoves]_vars

\* Overlapping moves: SeqCallers caller threads run move (with timeout 0:
\* with wait=True it waits at most 0 seconds, and the loop has no deadline),
\* stop and read; MaxMoves Move Operations, started whether or not an
\* earlier one is live.
NextOverlap ==
    \/ \E c \in 1..SeqCallers, tgt \in Pos, w \in BOOLEAN :
           move(c, tgt, Some(0), w)
    \/ \E c \in 1..SeqCallers : stop(c)
    \/ \E c \in 1..SeqCallers : read(c)
    \/ System

SpecOverlap == Init /\ [][NextOverlap]_vars

\* One BCSSignal, an analog input channel: NCoros coroutines call get() and
\* set(), each on any of the event loops.
NextSignal ==
    \/ \E c \in Coros, l \in Loops : get(c, l)
    \/ \E c \in Coros, l \in Loops : set(c, l)
    \/ \E c \in Coros : Acquire(c)
    \/ \E c \in Coros : SigConnectOk(c)
    \/ \E c \in Coros : SigConnectFail(c)
    \/ \E c \in Coros, rep \in SigReplies : SigReply(c, rep)
    \/ \E c \in Coros : SigFinish(c)

SpecSignal == Init /\ [][NextSignal]_vars

\* The scenario: on a motor that connects, a caller thread runs move to
\* MaxPos without a timeout (one Move Operation), and the caller threads
\* run get; the server is the scripted one.
NextScript ==
    \/ \E c \in Callers, w \in BOOLEAN :
           nextHandle <= TimedMoves /\ move(c, MaxPos, None, w)
    \/ \E c \in Callers : motorGet(c)
    \/ \E c \in Callers : GetReturn(c)
    \/ \E t \in Tasks : ConnectOk(t)
    \/ Send
    \/ \E t \in Tasks : ScriptReply(t)
    \/ \E h \in Handles : MonCheck(h)
    \/ \E h \in Handles : MonEval(h)
    \/ Tick

SpecScript == Init /\ [][NextScript]_vars

\* A server whose position converges to the commanded target MaxPos: it has
\* reported Move Complete for the move in progress
Converged == nextHandle > 1 /\ moveComplete

\* What the converging server answers to task t: a status report that says
\* Move Complete gives the target as position, and once it has reported
\* Move Complete every status report says so.
ConvergingReplies(t) ==
    {rep \in RepliesFor(op[t]) :
        rep.data # None =>
            /\ rep.data[1].complete => rep.data[1].pos = MaxPos
            /\ Converged => rep.data[1].complete}

\* One move to MaxPos (with every timeout) against the converging server;
\* the caller thread also runs read and stop.
NextConverge ==
    \/ \E to \in Timeouts, w \in BOOLEAN :
           nextHandle <= TimedMoves /\ move(1, MaxPos, to, w)
    \/ read(1)
    \/ stop(1)
    \/ \E t \in Tasks : ConnectOk(t)
    \/ \E t \in Tasks : ConnectFail(t)
    \/ Send
    \/ \E t \in Tasks : \E rep \in ConvergingReplies(t) : Reply(t, rep)
    \/ \E h \in Handles : MonCheck(h)
    \/ \E h \in Handles : MonEval(h)
    \/ MoveJoin(1)
    \/ ReadReturn(1)
    \/ StopReturn(1)
    \/ Tick

SpecConverge == Init /\ [][NextConverge]_vars

\* no thread is inside an operation of the motor or of the signal
Quiet ==
    /\ \A t \in Tasks : pc[t] \in {"idle", "none", "done"}
    /\ \A c \in Coros : sigPc[c] = "idle"

\* Sequential use of one BCSMotor and one BCSSignal (analog input): one
\* caller thread and one coroutine; an operation (move with every timeout,
\* stop, read, get, set) begins only when no other one is in progress and
\* no monitoring loop is running; TimedMoves Move Operations.
NextLazy ==
    \/ \E tgt \in Pos, to \in Timeouts, w \in BOOLEAN :
           Quiet /\ nextHandle <= TimedMoves /\ move(1, tgt, to, w)
    \/ Quiet /\ stop(1)
    \/ Quiet /\ read(1)
    \/ Quiet /\ get(1, 1)
    \/ Quiet /\ set(1, 1)
    \/ SigConnectOk(1)
    \/ SigConnectFail(1)
    \/ \E rep \in SigReplies : SigReply(1, rep)
    \/ SigFinish(1)
    \/ System

SpecLazy == Init /\ [][NextLazy]_vars

\* the same sequential use, of devices built with any of the arguments
SpecDescr == InitDescr /\ [][NextLazy]_vars

\* One BCSSignal whose itemType is "motor": NCoros coroutines call set(),
\* each on any of the event loops.
NextSignalMotor ==
    \/ \E c \in Coros, l \in Loops : setMotor(c, l)
    \/ \E c \in Coros : Acquire(c)
    \/ \E c \in Coros : SigConnectOk(c)
    \/ \E c \in Coros : SigConnectFail(c)
    \/ \E c \in Coros, rep \in MoveReplies : SigReply(c, rep)
    \/ \E c \in Coros : SigFinish(c)

SpecSignalMotor == Init /\ [][NextSignalMotor]_vars

\* One BCSSignal whose itemType is "motor": NCoros coroutines call get()
\* and set(), each on any of the event loops.  get() takes the motor branch,
\* which examines the reply to get_motor as the "ai" branch examines the
\* reply to get_freerun (the value being the position of the first record).
NextSignalReplies ==
    \/ \E c \in Coros, l \in Loops : get(c, l)
    \/ \E c \in Coros, l \in Loops : setMotor(c, l)
    \/ \E c \in Coros : Acquire(c)
    \/ \E c \in Coros : SigConnectOk(c)
    \/ \E c \in Coros : SigConnectFail(c)
    \/ \E c \in Coros :
           \E rep \in IF sigOp[c] = "set_motor" THEN MoveReplies
                      ELSE SigReplies : SigReply(c, rep)
    \/ \E c \in Coros : SigFinish(c)

SpecSignalReplies == Init /\ [][NextSignalReplies]_vars

\* One BCSDeviceManager: NConnects coroutines of one event loop call
\* connect(); the probe, the transport and the server answer in every way.
NextManager ==
    \/ \E m \in MCoros, sockOk \in BOOLEAN : connect(m, sockOk)
    \/ \E m \in MCoros : ConnectReturn(m)
    \/ \E m \in MCoros, ok \in BOOLEAN : ProbeSend(m, ok)
    \/ \E m \in MCoros, resp \in {"data", "empty", "error"} :
           ProbeRecv(m, resp)
    \/ \E m \in MCoros : ProbeAgain(m)
    \/ \E m \in MCoros : ProbeReturn(m)
    \/ MgrTick
    \/ \E m \in MCoros : MgrConnectOk(m)
    \/ \E m \in MCoros : MgrConnectFail(m)
    \/ \E m \in MCoros, rep \in ConfigReplies : ConfigReply(m, rep)

SpecManager == Init /\ [][NextManager]_vars

\* One BCSAreaDetector: a thread calls stage, unstage, kickoff, complete
\* and trigger in any order, NTriggers acquisitions; the acquisition
\* threads run beside it.
NextDetector ==
    \/ stage
    \/ unstage
    \/ kickoff
    \/ complete
    \/ trigger
    \/ \E a \in Statuses : AcqPattern(a)
    \/ \E a \in Statuses : AcqLoad(a)
    \/ \E a \in Statuses : AcqStore(a)
    \/ \E a \in Statuses : AcqPut(a)
    \/ \E a \in Statuses : AcqFinish(a)

SpecDetector == Init /\ [][NextDetector]_vars

\* --------------------------------------------------------------- properties

C2_NotFoundFailsAtOnce ==
    \A h \in Handles :
        cmdResult[h] = "not_found" =>
            /\ outcome[h] = "failed"
            /\ pc[MonTask(h)] = "none"
            /\ MonTask(h) \notin wire

\* C3: when the reply to the move command has success=false, or lists the
\* motor in timed_out, the handle is settled (failed, respectively timedOut)
\* when move() returns it, and no monitoring loop is started.
C3_RefusedMoveIsSettled ==
    \A h \in Handles :
        /\ cmdResult[h] = "remote_error" =>
               outcome[h] = "failed" /\ pc[MonTask(h)] = "none"
        /\ cmdResult[h] = "timed_out" =>
               outcome[h] = "timedOut" /\ pc[MonTask(h)] = "none"

\* C4: when a status poll of a monitoring loop ends in an error, the loop
\* settles the handle as failed and stops; it does not poll again.
C4_PollErrorSettles ==
    [][\A h \in Handles :
          (pollErr[h] /\ pc[MonTask(h)] = "mon_eval"
                      /\ pc'[MonTask(h)] # "mon_eval") =>
              outcome'[h] = "failed" /\ pc'[MonTask(h)] = "done"]_vars

\* C5: when the monitoring loop of a move (no other move being live) has
\* got a status report saying Move Complete, its next step settles the
\* handle as succeeded, whatever the timeout, and the motor's position is
\* the position of the latest status report.
C5_CompleteSucceeds ==
    [][\A h \in Handles :
          (gotComplete[h] /\ ~overlapped[h]
                          /\ pc[MonTask(h)] = "mon_eval"
                          /\ pc'[MonTask(h)] # "mon_eval") =>
              /\ outcome'[h] = "succeeded"
              /\ pc'[MonTask(h)] = "done"
              /\ lastReport' = Some(position')]_vars

\* the server has accepted a move with a timeout, and the loop of that move
\* holds a report that says Move Complete, at position MaxPos
C5_Witness ==
    \E h \in Handles :
        /\ cmdResult[h] = "ok"
        /\ Timed(h)
        /\ gotComplete[h]
        /\ pc[MonTask(h)] = "mon_eval"
        /\ position = MaxPos
        /\ lastReport = Some(MaxPos)

\* C6: a handle settles as timedOut no earlier than its timeout t and no
\* later than t plus one poll interval after the loop started, whatever
\* the duration of the status polls.
C6_TimeoutWithinOneInterval ==
    [][\A h \in Handles :
          (outcome[h] = "pending" /\ outcome'[h] = "timedOut") =>
              /\ elapsed[h] >= hTimeout[h][1]
              /\ elapsed[h] <= hTimeout[h][1] + PollInterval]_vars

\* C7: once a handle is settled, no later step changes its outcome.
C7_OutcomeMonotonic ==
    [][\A h \in Handles :
          outcome[h] \in Settled => outcome'[h] = outcome[h]]_vars

\* the first move has timed out and a later move on the same motor has
\* succeeded
C7_Witness ==
    /\ MaxMoves >= 2
    /\ outcome[1] = "timedOut"
    /\ outcome[2] = "succeeded"

\* C8: of the threads that make their first call on the motor at the same
\* time, one makes the connect attempt: no two connect attempts are in
\* progress together.
C8_OneConnectAttempt ==
    Cardinality({t \in Tasks : pc[t] = "connecting"}) <= 1

\* C9: no coroutine waits for the connection lock of the BCSSignal while
\* the holder of the lock is suspended in connect on the same event loop
\* (the holder could never be resumed, nor the lock released).
C9_NoLockDeadlock ==
    \A c, d \in Coros :
        ~ /\ sigPc[c] = "blocked"
          /\ connection_lock = d
          /\ sigPc[d] = "connecting"
          /\ sigLoop[c] = sigLoop[d]

\* C10: a read() that returns, returns the position of the reply to its own
\* request.
C10_OwnReply ==
    [][\A c \in Callers :
          (pc[c] = "read_ret" /\ pc'[c] = "idle") => ReadValue = loc[c]]_vars

\* C11: a stop() that returns has sent one stop-command request, whether
\* or not a move is in progress and whether or not the motor was connected
\* before: it does not return without having sent it.
C11_StopSendsOneRequest ==
    \A c \in Callers : pc[c] = "stop_ret" => callResult[c] # "connect_failed"

\* C12: stop() sets isMoving to false and leaves every pending handle
\* untouched: no step of a stop() changes an outcome or moves a monitoring
\* loop, and a pending handle is settled only by a step of its own loop,
\* as succeeded, timedOut or failed.
C12_StopLeavesHandles ==
    [][/\ \A c \in Callers :
              ((op[c] = "stop" \/ op'[c] = "stop") /\ pc'[c] # pc[c]) =>
                  /\ outcome' = outcome
                  /\ \A h \in Handles : pc'[MonTask(h)] = pc[MonTask(h)]
       /\ \A c \in Callers :
              (pc[c] # "stop_ret" /\ pc'[c] = "stop_ret") => ~isMoving'
       /\ \A h \in Handles :
              (outcome[h] = "pending" /\ outcome'[h] # "pending") =>
                  /\ pc[MonTask(h)] \in {"mon_check", "mon_eval"}
                  /\ pc'[MonTask(h)] = "done"
                  /\ outcome'[h] \in Settled]_vars

\* a stop() is returning while a handle is pending and its loop is polling
C12_Witness ==
    \E c \in Callers, h \in Handles :
        /\ pc[c] = "stop_ret"
        /\ ~isMoving
        /\ outcome[h] = "pending"
        /\ MonTask(h) \in wire

\* C13: a stop command is sent only by an explicit stop(): the step that
\* settles a handle (as timed out or otherwise) and the return of move()
\* from its wait submit and send nothing, and a stop request is submitted
\* only by a step of a caller thread running stop(), which is no step of a
\* monitoring loop.
C13_StopOnlyByStop ==
    [][/\ \A h \in Handles :
              (outcome[h] = "pending" /\ outcome'[h] \in Settled) =>
                  queue' = queue /\ wire' = wire
       /\ \A c \in Callers :
              (pc[c] = "join" /\ pc'[c] # "join") =>
                  queue' = queue /\ wire' = wire
       /\ \A t \in Tasks :
              (/\ op'[t] = "stop"
               /\ \E i \in 1..Len(queue') : queue'[i] = t
               /\ ~ \E i \in 1..Len(queue) : queue[i] = t) =>
                  /\ t \in Callers
                  /\ outcome' = outcome
                  /\ \A h \in Handles : pc'[MonTask(h)] = pc[MonTask(h)]]_vars

\* a move has timed out, nothing is in flight or waiting to be sent, and no
\* stop() has returned since the move began
C13_Witness ==
    \E h \in Handles :
        /\ outcome[h] = "timedOut"
        /\ isMoving
        /\ queue = <<>>
        /\ wire = {}
        /\ \A c \in Callers : pc[c] = "idle"

\* C14: at most one Move Operation is live per motor: no two monitoring
\* loops with unsettled handles run at the same time.
C14_OneLiveMove ==
    Cardinality({h \in Handles : outcome[h] = "pending" /\ Running(h)}) <= 1

\* C15: the motor's last observed position is written only by the status
\* poll of a monitoring loop: a step that changes it is the step of a
\* monitor thread taking the reply to its poll.
C15_PositionWrittenByPoll ==
    [][position' # position =>
          \E h \in Handles :
              /\ pc[MonTask(h)] = "wait"
              /\ pc'[MonTask(h)] = "mon_eval"]_vars

\* the position most recently stored by a read() or a status poll, the
\* initial value before either
LastStored == IF lastReport = None THEN 0 ELSE lastReport[1]

\* C16: BCSMotor.get() and BCSMotor.position send no request and attempt no
\* connection: they return the position most recently stored by a read() or
\* by a status poll (the initial value before either) and leave the state
\* of the motor, its moves and its transport unchanged.
C16_GetIsLocal ==
    [][\A c \in Callers :
          ((op[c] = "get" \/ op'[c] = "get") /\ pc'[c] # pc[c]) =>
              /\ UNCHANGED <<motorVars, moveVars, wireVars>>
              /\ \A t \in Tasks \ {c} : pc'[t] = pc[t]
              /\ pc'[c] \in {"get_ret", "idle"}
              /\ pc'[c] = "get_ret" => loc'[c] = LastStored]_vars

\* a get() is returning position MaxPos, stored by a poll of a move that is
\* still pending
C16_Witness ==
    \E c \in Callers, h \in Handles :
        /\ pc[c] = "get_ret"
        /\ loc[c] = MaxPos
        /\ MaxPos # 0
        /\ outcome[h] = "pending"
        /\ Running(h)

\* C17: BCSSignal.get() on an analog channel makes one value call, and when
\* it ends after the reply: a reply with success not true ends it with
\* RemoteError; a reply listing the name as not found ends it with NotFound
\* (with RemoteError when that reply has success not true as well); a reply
\* with success true, nothing not found and no data ends it with NoData; and
\* it returns a value only when the reply has success true, nothing not
\* found and data, so never a default.
C17_GetFailsWithoutData ==
    [][\A c \in Coros :
          (sigPc[c] = "got" /\ sigPc'[c] = "idle") =>
              LET rep == sigReply[c][1]
                  res == sigResult'[c]
              IN  /\ sigOp[c] = "get"
                  /\ sigReply'[c] = None
                  /\ ~rep.err =>
                        /\ rep.success # "true" => res = "RemoteError"
                        /\ rep.notFound => res \in {"NotFound", "RemoteError"}
                        /\ (rep.success = "true" /\ rep.notFound)
                              => res = "NotFound"
                        /\ (rep.success = "true" /\ ~rep.notFound
                            /\ rep.data = None) => res = "NoData"
                  /\ res = "value" =>
                        /\ ~rep.err
                        /\ rep.success = "true"
                        /\ ~rep.notFound
                        /\ rep.data # None]_vars

\* a get() on the analog channel has just ended with NoData
C17_Witness ==
    \E c \in Coros :
        /\ sigOp[c] = "get"
        /\ sigPc[c] = "idle"
        /\ sigResult[c] = "NoData"

\* C18: a write to the analog-input channel is rejected with Unsupported
\* before any connection attempt: a coroutine whose latest operation is
\* set() is never waiting for the connection lock, never connecting and
\* never in a transport call, and its set() ended with Unsupported.
C18_SetRejectedAtOnce ==
    \A c \in Coros :
        sigOp[c] = "set" =>
            /\ sigPc[c] = "idle"
            /\ sigResult[c] = "Unsupported"

\* C19: no failure of a stop command is swallowed: stop() returns normally
\* to its caller only when its stop request was sent and answered with
\* success.
C19_StopFailureSurfaces ==
    \A c \in Callers : pc[c] = "stop_ret" => callResult[c] = "ok"

\* C20: a connection fault is recoverable: when the transport call of a
\* stop() made on the established connection ends with a connection error,
\* the device no longer counts as connected.
C20_FaultDisconnects ==
    [][\A c \in Callers :
          (/\ pc[c] # "stop_ret"
           /\ pc'[c] = "stop_ret"
           /\ callResult'[c] = "conn_lost") => ~connected']_vars

\* C27: every monitoring loop is bounded by a deadline, so that it cannot
\* poll forever: a loop that is running has a timeout after which it
\* settles its handle.
C27_LoopHasDeadline ==
    \A h \in Handles : Running(h) => Truthy(hTimeout[h])

\* C28: move() called with wait=True returns only after the handle has been
\* settled, whether or not a timeout is supplied.
C28_WaitReturnsSettled ==
    [][\A c \in Callers :
          (pc[c] = "join" /\ pc'[c] = "idle") =>
              outcome[cur[c]] \in Settled]_vars

\* C29: a handle settles as succeeded only on the evidence of a status poll
\* of its own loop, issued after the move's command, that reported Move
\* Complete: the step that settles it as succeeded follows a poll of that
\* loop whose reply said Move Complete.
C29_SucceedsOnOwnPoll ==
    [][\A h \in Handles :
          (outcome[h] = "pending" /\ outcome'[h] = "succeeded") =>
              gotComplete[h]]_vars

\* C30: isMoving is set to true by move() and reset to false only by
\* stop(): a step that makes it true is the start of a move(), a step that
\* makes it false is the step of a stop() after its transport call, and no
\* step of a monitoring loop, in particular the one that settles the handle
\* as succeeded or timedOut, changes it.
C30_IsMovingWriters ==
    [][/\ (~isMoving /\ isMoving') =>
              \E c \in Callers : pc[c] = "idle" /\ op'[c] = "move"
       /\ (isMoving /\ ~isMoving') =>
              \E c \in Callers :
                  /\ op[c] = "stop"
                  /\ pc[c] # "stop_ret"
                  /\ pc'[c] = "stop_ret"
       /\ \A h \in Handles :
              (pc[MonTask(h)] # "none" /\ pc'[MonTask(h)] # pc[MonTask(h)]) =>
                  isMoving' = isMoving
       /\ \A h \in Handles :
              (outcome[h] = "pending" /\ outcome'[h] \in Settled) =>
                  isMoving' = isMoving]_vars

\* a move has settled as succeeded, no stop() was called meanwhile, and
\* isMoving is still true
C30_Witness ==
    \E h \in Handles :
        /\ outcome[h] = "succeeded"
        /\ isMoving
        /\ \A c \in Callers : pc[c] = "idle"

\* C24: setting a value on a motor-backed BCSSignal is the Motion
\* Controller's move, a move command followed by status polls: the set()
\* reports success only on a status report that says Move Complete.
C24_SetWaitsForCompletion ==
    [][\A c \in Coros :
          (/\ sigOp[c] = "set_motor"
           /\ sigPc[c] = "got"
           /\ sigPc'[c] = "idle"
           /\ sigResult'[c] = "ok") =>
              /\ sigReply[c][1].data # None
              /\ sigReply[c][1].data[1].complete]_vars

\* C25: a device's connection is created lazily and once.  A newly built
\* BCSMotor or BCSSignal is not connected and no connect is in progress.
\* In sequential use a connect is begun only by an operation that finds the
\* device not connected, while no other connect is in progress; a request
\* is submitted only on a connected device; and a device that has connected
\* stays connected, so that no later operation connects again.
C25_LazyConnectOnce ==
    /\ ~connected /\ ~sigConnected
    /\ \A t \in Tasks : pc[t] # "connecting"
    /\ \A c \in Coros : sigPc[c] # "connecting"
    /\ [][/\ \A t \in Tasks :
                 (pc[t] # "connecting" /\ pc'[t] = "connecting") =>
                     /\ ~connected
                     /\ op'[t] # "none"
                     /\ \A u \in Tasks : pc[u] # "connecting"
          /\ \A t \in Tasks :
                 (pc[t] # "wait" /\ pc'[t] = "wait") =>
                     /\ connected'
                     /\ pc[t] = "connecting" <=> ~connected
          /\ connected => connected'
          /\ \A c \in Coros :
                 (sigPc[c] # "connecting" /\ sigPc'[c] = "connecting") =>
                     /\ ~sigConnected
                     /\ \A d \in Coros : sigPc[d] # "connecting"
          /\ \A c \in Coros :
                 (sigPc[c] # "call" /\ sigPc'[c] = "call") =>
                     /\ sigConnected'
                     /\ sigPc[c] = "connecting" <=> ~sigConnected
          /\ sigConnected => sigConnected']_vars

\* on a motor that connected earlier a status poll is waiting for its reply,
\* and the signal has connected and returned a value
C25_Witness ==
    /\ connected
    /\ \E h \in Handles : MonTask(h) \in wire
    /\ sigConnected
    /\ sigResult[1] = "value"

\* C22: against a server whose position converges to the target x of the
\* move, a read() that returns after the move has settled as succeeded (no
\* later move having begun) returns x, the position the server reports
\* once the move is complete.
C22_ReadAfterMove ==
    [][\A c \in Callers :
          (/\ pc[c] = "read_ret"
           /\ pc'[c] = "idle"
           /\ moveComplete
           /\ \E h \in Handles : outcome[h] = "succeeded") =>
              ReadValue = MaxPos]_vars

\* the move has settled as succeeded and a read() is about to return the
\* position of its own reply, the target
C22_Witness ==
    /\ MaxPos # 0
    /\ \E h \in Handles : outcome[h] = "succeeded" /\ pc[MonTask(h)] = "done"
    /\ pc[1] = "read_ret"
    /\ loc[1] = MaxPos

\* C21: in the scripted scenario (the move command accepted, three status
\* polls answered {success: true}, then a reply carrying the status record
\* Move Complete at the target but no success field), the monitoring loop
\* that has taken the last reply of the script settles the handle as
\* succeeded, and the position observed is the target.
C21_ScriptedMoveSucceeds ==
    [][\A h \in Handles :
          (/\ ScriptEnded
           /\ pc[MonTask(h)] = "mon_eval"
           /\ pc'[MonTask(h)] # "mon_eval") =>
              /\ outcome'[h] = "succeeded"
              /\ position' = MaxPos]_vars

\* C23: requests on one connection are serviced in submission order: the
\* request that is sent is that of the call that began first among the
\* calls whose request is not yet sent.
C23_SubmissionOrder ==
    [][\A t \in Tasks :
          (t \in wire' /\ t \notin wire) => t = Head(begun)]_vars

\* C26: the descriptor fields are fixed at construction: in every state,
\* whatever operations have run, name, originalName, itemType, units, host,
\* port and timeout of the BCSSignal and host, port and timeout_ms of the
\* BCSDeviceManager have the values the constructor was given, the port as
\* a number, and the timeout that was not supplied is 10000 ms for the
\* BCSSignal and 5000 ms for the BCSDeviceManager.
C26_DescriptorFixed ==
    LET kw == descriptor.kwargs
        a == descriptor.args
        sg == descriptor.signal
        mg == descriptor.manager
    IN  /\ sg.name = kw.name
        /\ sg.originalName = kw.originalName
        /\ sg.itemType = kw.itemType
        /\ sg.units = kw.units
        /\ sg.host = kw.bridgeIP
        /\ sg.port = kw.bridgePort[2]
        /\ kw.timeout # None => sg.timeout = kw.timeout[1]
        /\ kw.timeout = None => sg.timeout = SignalTimeout
        /\ mg.host = a.host
        /\ mg.port = a.port
        /\ a.timeout_ms # None => mg.timeout_ms = a.timeout_ms[1]
        /\ a.timeout_ms = None => mg.timeout_ms = ManagerTimeout

\* a signal built with a timeout of its own and its port as a string, and
\* a motor, after they have connected and a get, a moving motor's status
\* poll and a stop have run
C26_Witness ==
    /\ descriptor.kwargs.timeout = Some(CustomTimeout)
    /\ descriptor.kwargs.bridgePort[1] = "str"
    /\ descriptor.args.timeout_ms = None
    /\ sigConnected
    /\ sigResult[1] = "value"
    /\ connected
    /\ ~isMoving
    /\ \E h \in Handles : outcome[h] = "succeeded"

C32_ReplyChecksOrdered ==
    [][\A c \in Coros :
          (sigPc[c] = "got" /\ sigPc'[c] = "idle" /\ ~sigReply[c][1].err) =>
              LET rep == sigReply[c][1]
                  res == sigResult'[c]
              IN  /\ ~SuccessOf(rep) => res = "RemoteError"
                  /\ (SuccessOf(rep) /\ rep.notFound) => res = "NotFound"
                  /\ (SuccessOf(rep) /\ ~rep.notFound /\ sigOp[c] = "set_motor"
                        /\ rep.timedOut) => res = "TimedOut"
                  /\ (SuccessOf(rep) /\ ~rep.notFound /\ sigOp[c] = "get"
                        /\ rep.data = None) => res = "NoData"]_vars

\* a get() has raised RemoteError, a set() has raised NotFound, and a get()
\* is about to examine a reply with success false that lists the name in
\* not_found and has data
C32_Witness ==
    \E c, d, e \in Coros :
        /\ sigOp[c] = "get" /\ sigPc[c] = "idle"
        /\ sigResult[c] = "RemoteError"
        /\ sigOp[d] = "set_motor" /\ sigPc[d] = "idle"
        /\ sigResult[d] = "NotFound"
        /\ sigOp[e] = "get" /\ sigPc[e] = "got"
        /\ sigReply[e][1].success = "false"
        /\ sigReply[e][1].notFound
        /\ sigReply[e][1].data # None

\* C33: a connect that fails in ensure_connected ends the operation with
\* ConnectionError, leaves the signal unconnected and releases the
\* connection lock; and a call of get() or set() that finds the lock free
\* and the signal unconnected, as the failure leaves them, takes the lock
\* and makes a connect attempt: it neither blocks nor goes on without one.
C33_FailedConnectIsRetried ==
    [][\A c \in Coros :
          /\ (sigPc[c] = "connecting" /\ sigPc'[c] # "connecting"
                /\ ~sigConnected') =>
                 /\ sigPc'[c] = "idle"
                 /\ sigResult'[c] = "ConnectionError"
                 /\ connection_lock = c
                 /\ connection_lock' = 0
          /\ (sigPc[c] = "idle" /\ sigPc'[c] # "idle"
                /\ connection_lock = 0 /\ ~sigConnected) =>
                 /\ sigPc'[c] = "connecting"
                 /\ connection_lock' = c]_vars

\* a connect attempt has failed and a call makes a new one
C33_Witness ==
    \E c, d \in Coros :
        /\ sigPc[c] = "idle"
        /\ sigResult[c] = "ConnectionError"
        /\ sigPc[d] = "connecting"
        /\ connection_lock = d
        /\ ~sigConnected
        /\ \A e \in Coros : sigPc[e] # "blocked"

C36_UniqueSanitizedNames ==
    /\ \A i, j \in 1..Len(catalog) :
          i # j => catalog[i].name # catalog[j].name
    /\ \A i \in 1..Len(catalog) :
          /\ catalog[i].name = SanitizeRe(catalog[i].originalName)
          /\ <<catalog[i].name, catalog[i].originalName>> \in seen_names
    /\ \A p, q \in seen_names : p[1] = q[1] => p = q

\* a population has added two devices and then met a device whose
\* sanitized name was present: it was not added, connect() returned False
C36_Witness ==
    /\ Len(catalog) = 2
    /\ ~mgrConnected
    /\ \A m \in MCoros : mPc[m] = "idle"
    /\ \E m \in MCoros : mResult[m] = "False" /\ mProbe[m] = "True"

\* C37: a connect() that returns False leaves seen_names and the catalog
\* as they were before the call.
C37_FailedConnectLeavesNoTrace ==
    [][\A m \in MCoros :
          (mPc[m] # "idle" /\ mPc'[m] = "idle" /\ mResult'[m] = "False") =>
              /\ seen_names' = seen_names
              /\ catalog' = catalog]_vars

\* C38: trigger() on a detector that is not staged raises and starts no
\* acquisition; each DeviceStatus returned by a trigger() is finished
\* once, by the acquisition thread started for it and by no other step,
\* also when the acquisitions of several triggers overlap.
C38_TriggerFinishesOnce ==
    [][/\ (detResult' # detResult /\ detResult' = <<"trigger", "raised">>) =>
              /\ ~staged
              /\ nextStatus' = nextStatus
              /\ aPc' = aPc
       /\ nextStatus' # nextStatus =>
              /\ staged
              /\ detResult' = <<"trigger", "ok">>
              /\ nextStatus' = nextStatus + 1
              /\ aPc' = [aPc EXCEPT ![nextStatus] = "pattern"]
       /\ \A a \in Statuses :
              /\ (aPc[a] = "none" /\ aPc'[a] # "none") => a = nextStatus
              /\ finished'[a] # finished[a] =>
                     /\ aPc[a] = "finish"
                     /\ aPc'[a] = "done"
                     /\ finished[a] = 0
                     /\ finished'[a] = 1
              /\ aPc'[a] = "done" => finished'[a] = 1
              /\ aPc'[a] # "done" => finished'[a] = 0]_vars

\* two acquisitions overlap: the status of the second trigger() is
\* finished while the thread of the first is about to finish its own
C38_Witness ==
    /\ aPc[1] = "finish" /\ finished[1] = 0
    /\ aPc[2] = "done" /\ finished[2] = 1

\* C39: in every reachable state a detector that is flying is staged.
C39_FlyingImpliesStaged == flying => staged

====
